---------------------------- MODULE Spec2Model ----------------------------
(***************************************************************************)
(* TileDB-ML readers: the PyTorch dataset pipeline                         *)
(*   key range -> partition_by_weight -> iter_tensors -> rows -> zip ->    *)
(*   _iter_shuffled, per DataLoader worker (tiledb/ml/readers/pytorch.py), *)
(* the tensor generators (tiledb/ml/readers/_tensor_gen.py), and the       *)
(* TensorFlow generator the tests of tests/ drive.                         *)
(*                                                                         *)
(* A row is identified by the value the array stores under its key; the    *)
(* arrays' contents are part of the state, so that a stream of rows may    *)
(* hold equal rows.  Every Python generator is modelled by its position.   *)
(***************************************************************************)
EXTENDS Integers, Sequences, FiniteSets, TLC

(* ------------------------------ bounds -------------------------------- *)
MaxRows == 4
MaxStart == 1
MaxWeight == 2
MaxBuf == 2
MaxWorkers == 3
MaxSchemas == 2
MaxShufRows == 5
MaxShufBuf == 3
MaxPartRows == 7
MaxPartCount == 4
MaxBatch == 3
MaxSpRows == 3
MaxSpCols == 2
MaxAttrs == 2

VARIABLES
    schemas,              \* the TensorSchema of every array: a sequence of records
    shuffle_buffer_size,  \* PyTorchTileDBDataLoader(shuffle_buffer_size=...)
    num_workers,          \* DataLoader(num_workers=...); 0: the main process iterates
    ds,                   \* the dataset object: "new", "constructed", "config_error"
    key_range,            \* key_range[p]: dataset.key_range of process p's dataset copy
    pc,                   \* pc[p]: where process p stands
    err,                  \* err[p]: the exception process p ended with, or "none"
    npart,                \* npart[p]: times p computed partition_by_count
    cur,                  \* cur[p][s]: the row generator of schema s in process p
    buffer,               \* buffer[p]: the list `buffer` of _iter_shuffled
    pend,                 \* pend[p]: <<idx, x>> while _iter_shuffled is suspended at its first yield
    out,                  \* out[p]: the rows process p's iterator has yielded, in order
    reads,                \* reads[p]: the reads (query[read_slice]) p has issued
    pt,                   \* a call of KeyRange.partition_by_count: its arguments and result
    tf,                   \* the TensorFlow dataset and its generator
    sg                    \* a TileDBSparseTensorGenerator and its iter_tensors generator

vars == <<schemas, shuffle_buffer_size, num_workers, ds, key_range, pc, err,
          npart, cur, buffer, pend, out, reads, pt, tf, sg>>

config == <<schemas, shuffle_buffer_size, num_workers, pt, tf, sg>>

Procs == 0 .. MaxWorkers - 1

(* The worker processes of the DataLoader; worker ids are 0 .. num_workers-1. *)
(* With num_workers = 0 the dataset is iterated in the main process, here 0.  *)
Active == IF num_workers = 0 THEN {0} ELSE 0 .. num_workers - 1

(* ------------------------------ KeyRange ------------------------------ *)
(* A key range is the half-open span [start, stop) of row keys.           *)
Range(a, b) == [start |-> a, stop |-> b]

RangeSize(r) == r.stop - r.start

Keys(r) == r.start .. r.stop - 1

CeilDiv(a, b) == (a + b - 1) \div b

Min(a, b) == IF a < b THEN a ELSE b

(* KeyRange.equal_values: both denote the same set of keys. *)
EqualValues(r1, r2) == Keys(r1) = Keys(r2)

(* KeyRange.partition_by_weight: the fewest contiguous subranges of at    *)
(* most `weight` keys each, in key order.                                 *)
PartitionByWeight(r, weight) ==
    [i \in 1 .. CeilDiv(RangeSize(r), weight) |->
        Range(r.start + (i - 1) * weight, Min(r.start + i * weight, r.stop))]

(* KeyRange.partition_by_count: subranges of ceil(size / n) keys each, in *)
(* key order; all but the last have that size, none is empty.             *)
PartitionByCount(r, n) ==
    LET size == CeilDiv(RangeSize(r), n)
    IN  [i \in 1 .. CeilDiv(RangeSize(r), size) |->
            Range(r.start + (i - 1) * size, Min(r.start + i * size, r.stop))]


(* ---------------------------- TensorSchema ---------------------------- *)
(* Slip: the rows of the slice in reverse key order.                      *)
SliceRowsReversed(sch, sl) ==
    [i \in 1 .. RangeSize(sl) |-> sch.data[sl.stop - i]]

(* The rows the array of a schema stores under the keys of a slice.       *)
SliceRows(sch, sl) ==
    [i \in 1 .. RangeSize(sl) |-> sch.data[sl.start + i - 1]]

(* query[read_slice]: the buffers one read returns.  A dense read returns *)
(* the rows of the slice.  A sparse read returns coordinate arrays and,   *)
(* per attribute, a value array; a slice over a spoiled key returns a     *)
(* value array one short of the coordinates.                              *)
ReadSlice(sch, sl) ==
    [rows    |-> SliceRows(sch, sl),
     ncoords |-> RangeSize(sl),
     ndata   |-> IF sch.sparse /\ Keys(sl) \cap sch.bad # {}
                 THEN RangeSize(sl) - 1 ELSE RangeSize(sl)]

(* Slip: the lengths of the value and coordinate arrays are not compared. *)
BatchUnchecked(sch, rd) == TRUE

(* sparse.COO(coords, data, shape) raises ValueError unless the data has  *)
(* one value per coordinate; a dense batch is yielded as read.            *)
BatchOk(sch, rd) == (~ sch.sparse) \/ rd.ndata = rd.ncoords

(* Slip: the generator starts at the second subrange.                     *)
NewCursorSkipsFirst == [sub |-> 2, batch |-> <<>>]

(* A fresh row generator of _iter_rows: no slice read yet.                *)
NewCursor == [sub |-> 1, batch |-> <<>>]

(* next() on the row generator of schema sch over key range kr:           *)
(*   (tensor for batch in schema.iter_tensors(subranges) for tensor in batch) *)
(* c.sub is the next subrange to read, c.batch the rows of the batch in   *)
(* hand that are not yet yielded.                                         *)
PullSchema(kr, sch, c) ==
    LET subs == PartitionByWeight(kr, sch.max_partition_weight)
    IN  IF c.batch # <<>>
        THEN [outcome |-> "row", row |-> Head(c.batch),
              cur |-> [c EXCEPT !.batch = Tail(c.batch)], reads |-> 0]
        ELSE IF c.sub <= Len(subs)
        THEN LET rd == ReadSlice(sch, subs[c.sub])
             IN  IF BatchOk(sch, rd)
                 THEN [outcome |-> "row", row |-> Head(rd.rows),
                       cur |-> [sub |-> c.sub + 1, batch |-> Tail(rd.rows)],
                       reads |-> 1]
                 ELSE [outcome |-> "err", row |-> 0,
                       cur |-> [sub |-> c.sub + 1, batch |-> <<>>], reads |-> 1]
        ELSE [outcome |-> "stop", row |-> 0, cur |-> c, reads |-> 0]

(* next() on the zip of it_rows: the generators are advanced in schema order;  *)
(* the first one that is exhausted ends the zip, the rows already taken   *)
(* from the earlier ones are dropped; an exception propagates.            *)
RECURSIVE ZipPull(_, _, _, _, _)
ZipPull(kr, cs, s, acc, n) ==
    IF s > Len(schemas)
    THEN [outcome |-> "row", row |-> acc, cur |-> cs, reads |-> n]
    ELSE LET r == PullSchema(kr, schemas[s], cs[s])
             cs2 == [cs EXCEPT ![s] = r.cur]
         IN  IF r.outcome = "row"
             THEN ZipPull(kr, cs2, s + 1, Append(acc, r.row), n + r.reads)
             ELSE [outcome |-> r.outcome, row |-> <<>>, cur |-> cs2,
                   reads |-> n + r.reads]

(* next() on `rows` of __iter__ before shuffling:                         *)
(*   rows = zip of it_rows if len(it_rows) > 1 else it_rows[0]            *)
PullRow(p) ==
    LET z == ZipPull(key_range[p], cur[p], 1, <<>>, 0)
    IN  IF Len(schemas) > 1 \/ z.outcome # "row"
        THEN z
        ELSE [z EXCEPT !.row = z.row[1]]

(* ----------------------------- the dataset ---------------------------- *)
(* Slip: every schema's key range is compared with itself.                *)
SameKeyRangeSelf ==
    \A s \in 2 .. Len(schemas) :
        EqualValues(schemas[s].key_range, schemas[s].key_range)

(* all(key_range.equal_values(schema.key_range) for schema in schemas[1:]) *)
SameKeyRange ==
    \A s \in 2 .. Len(schemas) :
        EqualValues(schemas[1].key_range, schemas[s].key_range)

NoRange == Range(0, 0)

(* _PyTorchTileDBDataset.__init__, and the DataLoader handing a copy of   *)
(* the dataset to each worker process.                                    *)
Construct ==
    /\ ds = "new"
    /\ IF SameKeyRange
       THEN /\ ds' = "constructed"
            /\ key_range' = [p \in Procs |->
                   IF p \in Active THEN schemas[1].key_range ELSE NoRange]
            /\ pc' = [p \in Procs |->
                   IF p \notin Active THEN "off"
                   ELSE IF num_workers = 0 THEN "ready" ELSE "new"]
       ELSE /\ ds' = "config_error"
            /\ UNCHANGED <<key_range, pc>>
    /\ UNCHANGED <<config, err, npart, cur, buffer, pend, out, reads>>

(* Slip: only the first schema is looked at.                              *)
FirstSparse == schemas[1].sparse

(* any(isinstance(schema, SparseTensorSchema) for schema in dataset.schemas) *)
AnySparse == \E s \in 1 .. Len(schemas) : schemas[s].sparse

(* _worker_init(worker_id), run once in worker process p before it iterates. *)
WorkerInit(p) ==
    /\ pc[p] = "new"
    /\ IF AnySparse
       THEN /\ pc' = [pc EXCEPT ![p] = "init_failed"]
            /\ err' = [err EXCEPT ![p] = "NotImplementedError"]
            /\ UNCHANGED <<key_range, npart>>
       ELSE LET key_ranges == PartitionByCount(key_range[p], num_workers)
            IN  /\ npart' = [npart EXCEPT ![p] = @ + 1]
                /\ IF p + 1 <= Len(key_ranges)
                   THEN /\ key_range' = [key_range EXCEPT ![p] = key_ranges[p + 1]]
                        /\ pc' = [pc EXCEPT ![p] = "ready"]
                        /\ UNCHANGED err
                   ELSE /\ pc' = [pc EXCEPT ![p] = "init_failed"]
                        /\ err' = [err EXCEPT ![p] = "IndexError"]
                        /\ UNCHANGED key_range
    /\ UNCHANGED <<config, ds, cur, buffer, pend, out, reads>>

(* _PyTorchTileDBDataset.__iter__: builds the generators, reads nothing.  *)
IterStart(p) ==
    /\ pc[p] = "ready"
    /\ cur' = [cur EXCEPT ![p] = [s \in 1 .. Len(schemas) |-> NewCursor]]
    /\ pc' = [pc EXCEPT ![p] =
                 IF shuffle_buffer_size > 0 THEN "fill" ELSE "plain"]
    /\ UNCHANGED <<config, ds, key_range, err, npart, buffer, pend, out, reads>>

(* The exception raised inside a generator ends the iteration of p.       *)
Raise(p, r) ==
    /\ pc' = [pc EXCEPT ![p] = "error"]
    /\ err' = [err EXCEPT ![p] = "ValueError"]
    /\ cur' = [cur EXCEPT ![p] = r.cur]
    /\ reads' = [reads EXCEPT ![p] = @ + r.reads]

(* next() on the unshuffled rows (shuffle_buffer_size = 0).               *)
PlainNext(p) ==
    /\ pc[p] = "plain"
    /\ LET r == PullRow(p)
       IN  CASE r.outcome = "row" ->
                  /\ out' = [out EXCEPT ![p] = Append(@, r.row)]
                  /\ cur' = [cur EXCEPT ![p] = r.cur]
                  /\ reads' = [reads EXCEPT ![p] = @ + r.reads]
                  /\ UNCHANGED <<pc, err>>
             [] r.outcome = "stop" ->
                  /\ pc' = [pc EXCEPT ![p] = "done"]
                  /\ cur' = [cur EXCEPT ![p] = r.cur]
                  /\ reads' = [reads EXCEPT ![p] = @ + r.reads]
                  /\ UNCHANGED <<out, err>>
             [] r.outcome = "err" ->
                  /\ Raise(p, r)
                  /\ UNCHANGED out
    /\ UNCHANGED <<config, ds, key_range, npart, buffer, pend>>


(* ---------------------------- _iter_shuffled --------------------------- *)
(* random.randrange(0, buffer_size)                                        *)
RandRange(buffer_size) == 0 .. buffer_size - 1

(* Slip: the new row is stored before the yield, so the yield gives it.    *)
YieldedAfterStore(buf, idx, x) == x

(* Slip: a draw of the last slot yields the row just taken.                *)
YieldedNewAtLastSlot(buf, idx, x) == IF idx = Len(buf) - 1 THEN x ELSE buf[idx + 1]

(* yield buffer[idx], with x the row just taken from the iterator.         *)
Yielded(buf, idx, x) == buf[idx + 1]

(* Slip: the new row is stored in the slot after the one yielded.          *)
StoreAtNextSlot(buf, idx, x) == [buf EXCEPT ![((idx + 1) % Len(buf)) + 1] = x]

(* Slip: the new row is appended instead of replacing the yielded one.     *)
StoreAppended(buf, idx, x) == Append(buf, x)

(* buffer[idx] = x                                                         *)
StoreAt(buf, idx, x) == [buf EXCEPT ![idx + 1] = x]

(* random.shuffle(buffer): any order of the same rows.                     *)
Shuffled(buf) ==
    LET n == Len(buf)
    IN  {[i \in 1 .. n |-> buf[f[i]]] :
            f \in {g \in [1 .. n -> 1 .. n] :
                      \A i, j \in 1 .. n : g[i] = g[j] => i = j}}

(* buffer = list(itertools.islice(iterator, buffer_size)), one row a step: *)
(* islice stops after buffer_size rows, or when the iterator is exhausted. *)
ShuffleFill(p) ==
    /\ pc[p] = "fill"
    /\ LET r == PullRow(p)
       IN  CASE r.outcome = "row" ->
                  /\ buffer' = [buffer EXCEPT ![p] = Append(@, r.row)]
                  /\ pc' = [pc EXCEPT ![p] =
                        IF Len(buffer[p]) + 1 = shuffle_buffer_size
                        THEN "loop" ELSE "fill"]
                  /\ cur' = [cur EXCEPT ![p] = r.cur]
                  /\ reads' = [reads EXCEPT ![p] = @ + r.reads]
                  /\ UNCHANGED err
             [] r.outcome = "stop" ->
                  /\ pc' = [pc EXCEPT ![p] = "loop"]
                  /\ cur' = [cur EXCEPT ![p] = r.cur]
                  /\ reads' = [reads EXCEPT ![p] = @ + r.reads]
                  /\ UNCHANGED <<buffer, err>>
             [] r.outcome = "err" ->
                  /\ Raise(p, r)
                  /\ UNCHANGED buffer
    /\ UNCHANGED <<config, ds, key_range, npart, pend, out>>

(* for x in iterator: idx = randrange(0, buffer_size); yield buffer[idx]   *)
(* and, once the iterator is exhausted, random.shuffle(buffer).            *)
ShuffleLoop(p) ==
    /\ pc[p] = "loop"
    /\ LET r == PullRow(p)
       IN  CASE r.outcome = "row" ->
                  \E idx \in RandRange(shuffle_buffer_size) :
                      /\ out' = [out EXCEPT ![p] =
                                    Append(@, Yielded(buffer[p], idx, r.row))]
                      /\ pend' = [pend EXCEPT ![p] = <<idx, r.row>>]
                      /\ pc' = [pc EXCEPT ![p] = "store"]
                      /\ cur' = [cur EXCEPT ![p] = r.cur]
                      /\ reads' = [reads EXCEPT ![p] = @ + r.reads]
                      /\ UNCHANGED <<buffer, err>>
             [] r.outcome = "stop" ->
                  /\ \E b \in Shuffled(buffer[p]) :
                         buffer' = [buffer EXCEPT ![p] = b]
                  /\ pc' = [pc EXCEPT ![p] = "drain"]
                  /\ cur' = [cur EXCEPT ![p] = r.cur]
                  /\ reads' = [reads EXCEPT ![p] = @ + r.reads]
                  /\ UNCHANGED <<out, pend, err>>
             [] r.outcome = "err" ->
                  /\ Raise(p, r)
                  /\ UNCHANGED <<buffer, out, pend>>
    /\ UNCHANGED <<config, ds, key_range, npart>>

(* The generator resumes after its yield: buffer[idx] = x.                 *)
ShuffleStore(p) ==
    /\ pc[p] = "store"
    /\ buffer' = [buffer EXCEPT ![p] = StoreAt(@, pend[p][1], pend[p][2])]
    /\ pend' = [pend EXCEPT ![p] = <<>>]
    /\ pc' = [pc EXCEPT ![p] = "loop"]
    /\ UNCHANGED <<config, ds, key_range, err, npart, cur, out, reads>>

(* while buffer: yield buffer.pop()                                        *)
ShuffleDrain(p) ==
    /\ pc[p] = "drain"
    /\ IF buffer[p] # <<>>
       THEN /\ out' = [out EXCEPT ![p] = Append(@, buffer[p][Len(buffer[p])])]
            /\ buffer' = [buffer EXCEPT ![p] = SubSeq(@, 1, Len(@) - 1)]
            /\ UNCHANGED pc
       ELSE /\ pc' = [pc EXCEPT ![p] = "done"]
            /\ UNCHANGED <<out, buffer>>
    /\ UNCHANGED <<config, ds, key_range, err, npart, cur, pend, reads>>

(* --------------------------- initial states ---------------------------- *)
Ranges == {Range(a, a + n) : a \in {0, MaxStart}, n \in 1 .. MaxRows}

Weights == {1, MaxWeight}

BufferSizes == {0, 1, MaxBuf}

(* The array stores under every key a row of its own.                      *)
Identity(r) == [k \in Keys(r) |-> k]

DenseSchemas(r) ==
    {[sparse |-> FALSE, key_range |-> r, max_partition_weight |-> w,
      data |-> Identity(r), bad |-> {}] : w \in Weights}

(* A sparse array is sound, or spoiled at key k.                           *)
SparseSchemas(r, k) ==
    {[sparse |-> TRUE, key_range |-> r, max_partition_weight |-> w,
      data |-> Identity(r), bad |-> b] : w \in Weights, b \in {{}, {k}}}

(* Arrays next to an array over r whose key ranges need not be that of r:  *)
(* one row longer, or shifted by one key.                                  *)
OtherRanges(r) == {r, Range(r.start, r.stop + 1), Range(r.start + 1, r.stop + 1)}

MisalignedSchemas(r) ==
    {[sparse |-> sp, key_range |-> q, max_partition_weight |-> 1,
      data |-> Identity(q), bad |-> {}] : sp \in BOOLEAN, q \in OtherRanges(r)}

NoCall == [state |-> "off"]

(* No dataset is constructed yet.                                          *)
InitPipeline ==
    /\ ds = "new"
    /\ key_range = [p \in Procs |-> NoRange]
    /\ pc = [p \in Procs |-> "off"]
    /\ err = [p \in Procs |-> "none"]
    /\ npart = [p \in Procs |-> 0]
    /\ cur = [p \in Procs |-> <<>>]
    /\ buffer = [p \in Procs |-> <<>>]
    /\ pend = [p \in Procs |-> <<>>]
    /\ out = [p \in Procs |-> <<>>]
    /\ reads = [p \in Procs |-> 0]

(* One or more arrays, dense or sparse, whose key ranges agree, differ by  *)
(* one row or are shifted by one key, iterated in the main process or by   *)
(* one worker.                                                             *)
Init ==
    /\ \E base \in Ranges, k \in 1 .. MaxSchemas :
          \/ \E spoiled \in Keys(base) :
                 schemas \in [1 .. k -> DenseSchemas(base) \cup SparseSchemas(base, spoiled)]
          \/ schemas \in [1 .. k -> MisalignedSchemas(base)]
    /\ shuffle_buffer_size \in BufferSizes
    /\ num_workers \in {0, 1}
    /\ pt = NoCall
    /\ tf = NoCall
    /\ sg = NoCall
    /\ InitPipeline

Next ==
    \/ Construct
    \/ \E p \in Procs : WorkerInit(p)
    \/ \E p \in Procs : IterStart(p)
    \/ \E p \in Procs : PlainNext(p)
    \/ \E p \in Procs : ShuffleFill(p)
    \/ \E p \in Procs : ShuffleLoop(p)
    \/ \E p \in Procs : ShuffleStore(p)
    \/ \E p \in Procs : ShuffleDrain(p)

Spec == Init /\ [][Next]_vars


(* ------------------- the shuffle buffer on its own -------------------- *)
(* One dense array whose rows are any values, equal rows included,        *)
(* iterated in the main process through _iter_shuffled.                   *)
Values == {"a", "b"}

InitShuffle ==
    /\ \E n \in 1 .. MaxShufRows, w \in {1, MaxShufRows} :
          \E d \in [Keys(Range(0, n)) -> Values] :
              schemas = <<[sparse |-> FALSE, key_range |-> Range(0, n),
                           max_partition_weight |-> w, data |-> d, bad |-> {}]>>
    /\ shuffle_buffer_size \in 1 .. MaxShufBuf
    /\ num_workers = 0
    /\ pt = NoCall
    /\ tf = NoCall
    /\ sg = NoCall
    /\ InitPipeline

NextShuffle ==
    \/ Construct
    \/ IterStart(0)
    \/ ShuffleFill(0)
    \/ ShuffleLoop(0)
    \/ ShuffleStore(0)
    \/ ShuffleDrain(0)

SpecShuffle == InitShuffle /\ [][NextShuffle]_vars

(* ------------------------ DataLoader workers --------------------------- *)
(* Arrays over one key range, iterated by num_workers >= 1 workers.        *)
WorkerRanges == {Range(a, a + n) : a \in {0, MaxStart}, n \in 1 .. MaxRows + 1}

InitWorkers ==
    /\ \E r \in WorkerRanges, k \in 1 .. MaxSchemas :
          schemas \in [1 .. k ->
              {sch \in DenseSchemas(r) \cup SparseSchemas(r, r.start) :
                   sch.bad = {} /\ sch.max_partition_weight = MaxWeight}]
    /\ shuffle_buffer_size \in {0, 1}
    /\ num_workers \in 1 .. MaxWorkers
    /\ pt = NoCall
    /\ tf = NoCall
    /\ sg = NoCall
    /\ InitPipeline

SpecWorkers == InitWorkers /\ [][Next]_vars

(* ---------------- KeyRange.partition_by_count on its own --------------- *)
InitPart ==
    /\ \E a \in 0 .. MaxStart, m \in 1 .. MaxPartRows, n \in 1 .. MaxPartCount :
          pt = [state |-> "call", range |-> Range(a, a + m), n |-> n, result |-> <<>>]
    /\ schemas = <<>>
    /\ shuffle_buffer_size = 0
    /\ num_workers = 0
    /\ tf = NoCall
    /\ sg = NoCall
    /\ InitPipeline

(* list(key_range.partition_by_count(n))                                   *)
PartCall ==
    /\ pt.state = "call"
    /\ pt' = [pt EXCEPT !.state = "returned",
                        !.result = PartitionByCount(pt.range, pt.n)]
    /\ UNCHANGED <<schemas, shuffle_buffer_size, num_workers, tf, sg, ds, key_range,
                   pc, err, npart, cur, buffer, pend, out, reads>>

NextPart == PartCall

SpecPart == InitPart /\ [][NextPart]_vars

(* ------------------------ the TensorFlow dataset ----------------------- *)
(* TensorflowTileDBDataset(x_array, y_array, batch_size, buffer_size) and  *)
(* the generator behind it: construction compares the row counts of the    *)
(* two arrays; the generator checks buffer_size when it is first pulled.   *)
BufferSizeMessage == "Buffer size should be greater or equal to batch size"

(* Slip: any positive buffer size is accepted.                            *)
BufferSizePositive(batch_size, buffer_size) == buffer_size >= 1

BufferSizeOk(batch_size, buffer_size) == buffer_size >= batch_size

InitTF ==
    /\ \E b \in 1 .. MaxBatch, f \in 1 .. MaxBatch, n \in 1 .. MaxRows + 1, e \in {0, 1} :
          tf = [state |-> "new", batch_size |-> b, buffer_size |-> f,
                x_rows |-> n + e, y_rows |-> n, offset |-> 0, batches |-> <<>>,
                err |-> "none"]
    /\ schemas = <<>>
    /\ shuffle_buffer_size = 0
    /\ num_workers = 0
    /\ pt = NoCall
    /\ sg = NoCall
    /\ InitPipeline

TFUnchanged ==
    UNCHANGED <<schemas, shuffle_buffer_size, num_workers, pt, sg, ds, key_range,
                pc, err, npart, cur, buffer, pend, out, reads>>

(* TensorflowTileDBDataset(...): ValueError on unequal row counts.         *)
TFConstruct ==
    /\ tf.state = "new"
    /\ tf' = IF tf.x_rows = tf.y_rows
             THEN [tf EXCEPT !.state = "constructed"]
             ELSE [tf EXCEPT !.state = "config_error", !.err = "ValueError"]
    /\ TFUnchanged

(* next() on the dataset's iterator: the first pull starts the generator,  *)
(* which refuses a buffer smaller than a batch; every pull yields the next *)
(* batch of at most batch_size rows.                                       *)
TFNext ==
    /\ tf.state \in {"constructed", "iterating"}
    /\ tf' = IF tf.state = "constructed" /\ ~ BufferSizeOk(tf.batch_size, tf.buffer_size)
             THEN [tf EXCEPT !.state = "error", !.err = BufferSizeMessage]
             ELSE IF tf.offset < tf.x_rows
             THEN [tf EXCEPT !.state = "iterating",
                             !.offset = Min(tf.offset + tf.batch_size, tf.x_rows),
                             !.batches = Append(@,
                                 Min(tf.offset + tf.batch_size, tf.x_rows) - tf.offset)]
             ELSE [tf EXCEPT !.state = "done"]
    /\ TFUnchanged

NextTF == TFConstruct \/ TFNext

SpecTF == InitTF /\ [][NextTF]_vars


(* ------------- TileDBSparseTensorGenerator.iter_tensors --------------- *)
(* A sparse array of two dimensions (rows, columns) and one or more       *)
(* attributes; sg.cells are its non-empty cells, every attribute storing  *)
(* a value of its own in each of them.                                    *)

(* iter_slices(start_offset, stop_offset, buffer_size): the slices of     *)
(* buffer_size rows that cover [start_offset, stop_offset), the last one  *)
(* being shorter when the rows do not divide evenly.                      *)
IterSlices(start_offset, stop_offset, buffer_size) ==
    PartitionByWeight(Range(start_offset, stop_offset), buffer_size)

(* The cells of the rows of a slice, in row-major order.                  *)
RowMajor(sl, ncols) ==
    [i \in 1 .. RangeSize(sl) * ncols |->
        <<sl.start + ((i - 1) \div ncols), (i - 1) % ncols>>]

(* The value attribute a stores in a cell.                                *)
CellValue(a, cell) == 100 * a + 10 * cell[1] + cell[2]

(* buffer = query[read_slice]: one coordinate array per dimension, in the *)
(* array's own (global) coordinates, and one value array per attribute.   *)
(* A read over a spoiled row returns the last attribute's values one      *)
(* short of the coordinates.                                              *)
SparseQuery(g, sl) ==
    LET hit == SelectSeq(RowMajor(sl, g.ncols), LAMBDA c : c \in g.cells)
        vals(a) == [j \in 1 .. Len(hit) |-> CellValue(a, hit[j])]
    IN  [coords |-> <<[j \in 1 .. Len(hit) |-> hit[j][1]],
                      [j \in 1 .. Len(hit) |-> hit[j][2]]>>,
         data   |-> [a \in 1 .. g.nattrs |->
                        IF a = g.nattrs /\ Keys(sl) \cap g.bad # {} /\ hit # <<>>
                        THEN SubSeq(vals(a), 1, Len(hit) - 1)
                        ELSE vals(a)]]

(* start = read_slice.start; if start: coords[0] -= start                 *)
(* The subtraction is made in place on the first coordinate array.        *)
Normalize(coords, start) ==
    IF start # 0
    THEN [coords EXCEPT ![1] = [j \in 1 .. Len(coords[1]) |-> coords[1][j] - start]]
    ELSE coords

(* Slip: the offset is subtracted again for every attribute after the     *)
(* first, the coordinate arrays being shared by the attributes.           *)
AttrCoordsRenormalized(coords, start, a) ==
    IF a > 1 THEN Normalize(coords, start) ELSE coords

(* The coords handed to sparse.COO for attribute a: the one list built    *)
(* before the generator expression over buffer.values() runs.             *)
AttrCoords(coords, start, a) == coords

(* sparse.COO(coords, data, shape), handed to _tensor_from_coo, which is  *)
(* abstract in this class: the tensor is named by the COO it is made of.  *)
COO(coords, data, shape) == [coords |-> coords, data |-> data, shape |-> shape]

(* next() on iter_tensors(buffer_size, start_offset, stop_offset).        *)
SparseNext ==
    /\ sg.state \in {"new", "iterating"}
    /\ LET slices == IterSlices(sg.start_offset, sg.stop_offset, sg.buffer_size)
       IN  IF sg.next > Len(slices)
           THEN sg' = [sg EXCEPT !.state = "done"]
           ELSE LET read_slice == slices[sg.next]
                    buf    == SparseQuery(sg, read_slice)
                    start  == read_slice.start
                    coords == Normalize(buf.coords, start)
                    shape  == <<read_slice.stop - start, sg.ncols>>
                    ok     == \A a \in 1 .. sg.nattrs :
                                  BatchOk([sparse |-> TRUE],
                                          [ncoords |-> Len(coords[1]),
                                           ndata   |-> Len(buf.data[a])])
                IN  IF ok
                    THEN sg' = [sg EXCEPT
                                   !.state = "iterating",
                                   !.next = @ + 1,
                                   !.batches = Append(@,
                                       [a \in 1 .. sg.nattrs |->
                                           COO(AttrCoords(coords, start, a),
                                               buf.data[a], shape)])]
                    ELSE sg' = [sg EXCEPT !.state = "error", !.next = @ + 1]
    /\ UNCHANGED <<schemas, shuffle_buffer_size, num_workers, pt, tf, ds, key_range,
                   pc, err, npart, cur, buffer, pend, out, reads>>

(* Every sparse array of up to MaxSpRows rows from row 0 or MaxStart on,  *)
(* of 1 or MaxAttrs attributes, read in slices of 1 or MaxWeight rows:    *)
(* sound with any set of non-empty cells, or full and spoiled in its last *)
(* row.                                                                   *)
InitSparse ==
    /\ \E a \in {0, MaxStart}, n \in 1 .. MaxSpRows, nc \in 1 .. MaxSpCols,
          na \in {1, MaxAttrs}, bs \in {1, MaxWeight} :
          LET all == Keys(Range(a, a + n)) \X (0 .. nc - 1)
          IN  \E cells \in SUBSET all, bad \in {{}, {a + n - 1}} :
                  /\ bad # {} => cells = all
                  /\ sg = [state |-> "new", cells |-> cells, ncols |-> nc,
                           nattrs |-> na, start_offset |-> a, stop_offset |-> a + n,
                           buffer_size |-> bs, bad |-> bad, next |-> 1,
                           batches |-> <<>>]
    /\ schemas = <<>>
    /\ shuffle_buffer_size = 0
    /\ num_workers = 0
    /\ pt = NoCall
    /\ tf = NoCall
    /\ InitPipeline

NextSparse == SparseNext

SpecSparse == InitSparse /\ [][NextSparse]_vars


(* ============================== properties ============================= *)
(* The rows an array stores under the keys of r, in key order.             *)
RowsInKeyOrder(sch, r) == [i \in 1 .. RangeSize(r) |-> sch.data[r.start + i - 1]]

Count(seq, v) == Cardinality({i \in DOMAIN seq : seq[i] = v})

Elems(seq) == {seq[i] : i \in DOMAIN seq}

SameMultiset(a, b) ==
    /\ Len(a) = Len(b)
    /\ \A v \in Elems(a) \cup Elems(b) : Count(a, v) = Count(b, v)

IsPrefix(a, b) == Len(a) <= Len(b) /\ a = SubSeq(b, 1, Len(a))

(* C1: once _iter_shuffled is fully drained, the rows it has yielded are a *)
(* permutation of the rows of its input: the same number of rows and the   *)
(* same multiset, whatever slots were drawn, whatever the final shuffle,   *)
(* and also when the input has fewer rows than buffer_size.                *)
C1_ShuffleIsPermutation ==
    pc[0] = "done" =>
        SameMultiset(out[0], RowsInKeyOrder(schemas[1], schemas[1].key_range))

(* C1 witness: a drained shuffle of an input longer than the buffer, with  *)
(* equal rows in it, that came out in another order.                       *)
C1_Witness ==
    /\ pc[0] = "done"
    /\ RangeSize(schemas[1].key_range) > shuffle_buffer_size
    /\ shuffle_buffer_size >= 2
    /\ Cardinality(Elems(out[0])) < Len(out[0])
    /\ out[0] # RowsInKeyOrder(schemas[1], schemas[1].key_range)

(* C2: with buffer_size = 1 the rows come out in input order: at every     *)
(* moment the rows yielded so far are the first rows of the input, and     *)
(* when the shuffle is drained they are the whole input.                   *)
C2_BufferOneKeepsOrder ==
    shuffle_buffer_size = 1 =>
        /\ IsPrefix(out[0], RowsInKeyOrder(schemas[1], schemas[1].key_range))
        /\ pc[0] = "done" =>
               out[0] = RowsInKeyOrder(schemas[1], schemas[1].key_range)

(* C2 witness: a drained shuffle with buffer_size = 1 of three or more     *)
(* rows that are not all equal.                                            *)
C2_Witness ==
    /\ shuffle_buffer_size = 1
    /\ pc[0] = "done"
    /\ Len(out[0]) >= 3
    /\ Cardinality(Elems(out[0])) >= 2


(* Consecutive subranges meet: each starts where the one before it stops.  *)
Contiguous(subs) ==
    \A i \in 1 .. Len(subs) - 1 : subs[i].stop = subs[i + 1].start

AllInitialised == \A p \in Active : pc[p] \notin {"off", "new"}

AllDone == \A p \in Active : pc[p] = "done"

(* The rows all workers have yielded, as keys (every array of these        *)
(* specifications stores its key as the row); a row of several arrays is   *)
(* named by its first component.                                           *)
KeyOf(row) == IF Len(schemas) > 1 THEN row[1] ELSE row

TimesEmitted(k) ==
    Cardinality(UNION {{<<p, i>> : i \in {j \in DOMAIN out[p] : KeyOf(out[p][j]) = k}} :
                          p \in Procs})

RowAt(k) ==
    IF Len(schemas) > 1
    THEN [s \in 1 .. Len(schemas) |-> schemas[s].data[k]]
    ELSE schemas[1].data[k]

ExpectedRows(r) == [j \in 1 .. RangeSize(r) |-> RowAt(r.start + j - 1)]

RECURSIVE SlicesUpTo(_, _)
SlicesUpTo(r, s) ==
    IF s = 0 THEN 0
    ELSE CeilDiv(RangeSize(r), schemas[s].max_partition_weight) + SlicesUpTo(r, s - 1)

(* C5: without shuffling and with a single worker, the rows yielded so far *)
(* are the first rows of the key range in key order, and once the iterator *)
(* is exhausted they are all N rows, each subrange of every array having   *)
(* been read once.                                                         *)
C5_UnshuffledKeyOrder ==
    (ds = "constructed" /\ shuffle_buffer_size = 0 /\ num_workers <= 1) =>
        /\ IsPrefix(out[0], ExpectedRows(schemas[1].key_range))
        /\ pc[0] = "done" =>
               /\ out[0] = ExpectedRows(schemas[1].key_range)
               /\ reads[0] = SlicesUpTo(schemas[1].key_range, Len(schemas))

(* C5 witness: three rows read in slices of two, all yielded.              *)
C5_Witness ==
    /\ shuffle_buffer_size = 0
    /\ pc[0] = "done"
    /\ RangeSize(schemas[1].key_range) = 3
    /\ schemas[1].max_partition_weight = 2
    /\ Len(out[0]) = 3

(* C6: when the arrays do not all report the key range of the first one,   *)
(* no dataset is constructed, no process ever iterates, no read is issued  *)
(* and no row is yielded.                                                  *)
C6_UnequalKeyRangesRejected ==
    (\E s \in 2 .. Len(schemas) :
         Keys(schemas[s].key_range) # Keys(schemas[1].key_range)) =>
        /\ ds \in {"new", "config_error"}
        /\ \A p \in Procs : pc[p] = "off" /\ reads[p] = 0 /\ out[p] = <<>>

(* C6 witness: construction has failed for two arrays one row apart.       *)
C6_Witness ==
    /\ ds = "config_error"
    /\ Len(schemas) = 2
    /\ RangeSize(schemas[1].key_range) = RangeSize(schemas[2].key_range) + 1

(* C7: with a sparse schema among the schemas, no worker gets past         *)
(* _worker_init: it fails with NotImplementedError, partition_by_count was *)
(* not computed, the worker's key range is the dataset's, and the worker   *)
(* issues no read and yields no row.                                       *)
C7_SparseWorkersRejected ==
    (num_workers >= 1 /\ \E s \in 1 .. Len(schemas) : schemas[s].sparse) =>
        \A p \in Procs :
            /\ pc[p] \in {"off", "new", "init_failed"}
            /\ pc[p] = "init_failed" => err[p] = "NotImplementedError"
            /\ npart[p] = 0
            /\ key_range[p] \in {NoRange, schemas[1].key_range}
            /\ reads[p] = 0
            /\ out[p] = <<>>

(* C7 witness: a worker of two or more has failed its initialisation, the  *)
(* sparse schema being the second one.                                     *)
C7_Witness ==
    /\ num_workers >= 2
    /\ Len(schemas) = 2 /\ ~ schemas[1].sparse /\ schemas[2].sparse
    /\ pc[1] = "init_failed" /\ err[1] = "NotImplementedError"

BadSlices(s, r) ==
    LET subs == PartitionByWeight(r, schemas[s].max_partition_weight)
    IN  {i \in 1 .. Len(subs) :
            schemas[s].sparse /\ Keys(subs[i]) \cap schemas[s].bad # {}}

SetMin(S) == CHOOSE x \in S : \A y \in S : x <= y

(* The first key of the first malformed slice of schema s.                 *)
FirstBadKey(s, r) ==
    PartitionByWeight(r, schemas[s].max_partition_weight)[SetMin(BadSlices(s, r))].start

BadSchemas(r) == {s \in 1 .. Len(schemas) : BadSlices(s, r) # {}}

RowKeys(row) == IF Len(schemas) > 1 THEN Elems(row) ELSE {row}

(* C9, in every state: a process whose key range holds a malformed sparse  *)
(* slice never ends its iteration normally and never yields a row of a     *)
(* malformed slice or of a later one; and an iteration that has failed     *)
(* failed with the ValueError of a malformed slice, right after reading    *)
(* the first malformed slice of some schema.                               *)
C9_State ==
    \A p \in Active :
        /\ (ds = "constructed" /\ BadSchemas(key_range[p]) # {}) =>
               /\ pc[p] # "done"
               /\ \A i \in 1 .. Len(out[p]) : \A k \in RowKeys(out[p][i]) :
                      \A s \in BadSchemas(key_range[p]) :
                          k < FirstBadKey(s, key_range[p])
        /\ pc[p] = "error" =>
               /\ err[p] = "ValueError"
               /\ \E s \in BadSchemas(key_range[p]) :
                      /\ cur[p][s].sub = SetMin(BadSlices(s, key_range[p])) + 1
                      /\ cur[p][s].batch = <<>>

(* C9, in every step: once the iteration of a process has failed it stays  *)
(* failed: no further read (no retry), no further row, and the rows left   *)
(* in the shuffle buffer stay there.                                       *)
C9_Step ==
    \A p \in Procs :
        pc[p] = "error" =>
            /\ pc'[p] = "error"
            /\ out'[p] = out[p]
            /\ reads'[p] = reads[p]
            /\ buffer'[p] = buffer[p]

(* C9: a malformed sparse slice ends the iteration with an error at that   *)
(* slice; no row of that slice or of a later one is yielded, nothing is    *)
(* yielded after the error, and the stream never ends normally.            *)
C9_MalformedSliceRaises == [] C9_State /\ [][C9_Step]_vars

(* C9 witness: the iteration failed with rows already yielded and rows     *)
(* still in the shuffle buffer.                                            *)
C9_Witness ==
    /\ pc[0] = "error" /\ err[0] = "ValueError"
    /\ out[0] # <<>>
    /\ buffer[0] # <<>>

CellsOf(tensor, start) ==
    {<<tensor.coords[1][j] + start, tensor.coords[2][j], tensor.data[j]>> :
        j \in 1 .. Len(tensor.data)}

(* The non-empty cells of the array in the rows of a slice, with the       *)
(* values attribute a stores in them.                                      *)
StoredCells(a, sl) ==
    {<<c[1], c[2], CellValue(a, c)>> : c \in {d \in sg.cells : d[1] \in Keys(sl)}}

HeldSlices(p) == Cardinality({s \in DOMAIN cur[p] : cur[p][s].batch # <<>>})

(* The rows the row generator of a schema has handed on so far: the rows   *)
(* of the slices read, less the rows of the batch still in hand.           *)
PulledOf(kr, sch, c) ==
    Min((c.sub - 1) * sch.max_partition_weight, RangeSize(kr)) - Len(c.batch)

RECURSIVE SlicesRead(_, _)
SlicesRead(cs, s) == IF s = 0 THEN 0 ELSE (cs[s].sub - 1) + SlicesRead(cs, s - 1)

C12_State ==
    \A p \in Active :
        /\ Len(buffer[p]) <= shuffle_buffer_size
        /\ HeldSlices(p) <= Len(schemas)
        /\ reads[p] = SlicesRead(cur[p], Len(cur[p]))
        /\ \A s \in DOMAIN cur[p] :
               /\ Len(cur[p][s].batch) < schemas[s].max_partition_weight
               /\ pc[p] # "error" =>
                      PulledOf(key_range[p], schemas[s], cur[p][s])
                          = Len(out[p]) + Len(buffer[p])

(* C12, in every step: the buffer grows only during pre-fill, by one row;  *)
(* it keeps its size while a source row replaces a yielded row; it shrinks *)
(* only in the final drain, by the row yielded; after pre-fill a step that *)
(* does not fail advances the source by at most one row, and only when it  *)
(* yields a row; and a step issues at most one read per schema.            *)
C12_Step ==
    \A p \in Procs :
        /\ Len(buffer'[p]) > Len(buffer[p]) =>
               pc[p] = "fill" /\ Len(buffer'[p]) = Len(buffer[p]) + 1
        /\ Len(buffer'[p]) < Len(buffer[p]) =>
               /\ pc[p] = "drain"
               /\ Len(buffer'[p]) = Len(buffer[p]) - 1
               /\ Len(out'[p]) = Len(out[p]) + 1
        /\ pc[p] \in {"loop", "store"} => Len(buffer'[p]) = Len(buffer[p])
        /\ pc[p] = "drain" => cur'[p] = cur[p]
        /\ reads'[p] - reads[p] <= Len(schemas)
        /\ (pc[p] \in {"loop", "store"} /\ pc'[p] # "error") =>
               \A s \in DOMAIN cur[p] :
                   LET adv == PulledOf(key_range[p], schemas[s], cur'[p][s])
                                - PulledOf(key_range[p], schemas[s], cur[p][s])
                   IN  adv \in {0, 1} /\ adv <= Len(out'[p]) - Len(out[p])

InputPos(p, row) == KeyOf(row) - key_range[p].start

(* The input positions of the rows of a sequence of rows of process p.     *)
Positions(p, rows) == {InputPos(p, rows[i]) : i \in DOMAIN rows}

(* C13: through _iter_shuffled with buffer_size >= 1 over N rows, the row  *)
(* yielded at output position j (0-based) has input position at most       *)
(* j + buffer_size - 1, whatever slots are drawn and whatever the final    *)
(* shuffle; and once a row is yielded, the first min(buffer_size, N) rows  *)
(* of the input have all been pulled: each is yielded or in the buffer.    *)
C13_ShuffleOnlyDelays ==
    (ds = "constructed" /\ shuffle_buffer_size >= 1) =>
        \A p \in Active :
            /\ \A i \in 1 .. Len(out[p]) :
                   InputPos(p, out[p][i]) <= (i - 1) + shuffle_buffer_size - 1
            /\ out[p] # <<>> =>
                   /\ 0 .. Min(shuffle_buffer_size, RangeSize(key_range[p])) - 1
                          \subseteq Positions(p, out[p]) \cup Positions(p, buffer[p])
                   /\ PulledOf(key_range[p], schemas[1], cur[p][1])
                          >= Min(shuffle_buffer_size, RangeSize(key_range[p]))

(* C13 witness: four rows through a buffer of two, drained; the second row *)
(* yielded is the third of the input, as far ahead as the bound allows,    *)
(* and the first row of the input is yielded last.                         *)
C13_Witness ==
    /\ shuffle_buffer_size = 2
    /\ pc[0] = "done"
    /\ Len(out[0]) = 4
    /\ InputPos(0, out[0][2]) = 2
    /\ InputPos(0, out[0][4]) = 0

=============================================================================
